---- MODULE Spec2Model ----
(***************************************************************************)
(* Model of the publishing pipeline of flask_blog: the Post / Category     *)
(* store behind SQLAlchemy, PostService, CategoryService and the dashboard *)
(* routes that drive them.                                                 *)
(*                                                                         *)
(* Spec          : the dashboard routes, served one request at a time.     *)
(* ServiceSpec   : PostService called directly, and scripts writing posts. *)
(* ConcSpec      : two requests interleave at the grain of their database  *)
(*                 statements (query, flush, commit).                      *)
(* CacheSpec     : the routes with the memoized dashboard statistics.      *)
(* AuthSpec      : the post routes with the user of each request.          *)
(* FaultSpec     : PostService under failures of the commit and the cache. *)
(* SanitizerSpec : clean_html_content applied to inputs, once and again.   *)
(* PublicSpec    : the public pages read while the dashboard writes.       *)
(* RaceSpec      : a post request interleaved with delete_category.        *)
(* StatsRaceSpec : get_dashboard_stats interleaved with a write.           *)
(* ActionSpec    : _determine_post_action applied to submitted forms.      *)
(***************************************************************************)
EXTENDS Integers, FiniteSets, Sequences, TLC

VARIABLES posts, cats, last, req, cache, env, san, page

vars == <<posts, cats, last, req, cache, env, san, page>>

-----------------------------------------------------------------------------
(* Bounds of the model *)

\* largest id a table hands out before the model stops inserting
MaxPostId == 2
MaxCatId == 2

-----------------------------------------------------------------------------
(* Values *)

\* Python None, for integer-valued and for string-valued fields
None == -1
NoneStr == "None"

\* users table: id and is_admin (create_admin.py makes the admin)
Users == {[id |-> 1, is_admin |-> TRUE], [id |-> 2, is_admin |-> FALSE]}

\* slugs a caller may submit; PostForm's Regexp admits the lowercase ones only
RawSlugs == {"hello-world", "second-post", "Hello-World"}

\* str.lower() on the submitted slugs
Lower(s) == IF s = "Hello-World" THEN "hello-world" ELSE s

\* the pattern ^[a-z0-9-]+$ of PostForm.slug
SlugRegexp(s) == s \in {"hello-world", "second-post"}

\* HTML as html5lib tokenizes it: text, start tags with their attributes in
\* order, end tags
Text(data) == [kind |-> "text", tag |-> "#text", attrs |-> <<>>, data |-> data]
Start(tag, attrs) == [kind |-> "start", tag |-> tag, attrs |-> attrs, data |-> ""]
End(tag) == [kind |-> "end", tag |-> tag, attrs |-> <<>>, data |-> ""]
Attr(name, value) == [name |-> name, value |-> value]

ALLOWED_HTML_TAGS ==
    {"p", "strong", "h1", "h2", "h3", "ul", "ol", "li", "a", "code", "pre",
     "span", "img", "details", "summary"}

\* the attribute values of the model and what the string tests of the
\* cleaner say of them
UrlValues ==
    {"https://example.com/", "javascript:alert(1)", "/about",
     "/static/images/a.png", "https://jake.tw/a.png",
     "data:image/png;base64,AA", "https://evil.example/a.png"}

\* value.startswith(pattern) for a pattern of trusted_patterns
TrustedSrc(value) ==
    value \in {"/static/images/a.png", "https://jake.tw/a.png",
               "data:image/png;base64,AA"}

\* value.startswith(('http://', 'https://'))
HttpUrl(value) ==
    value \in {"https://example.com/", "https://jake.tw/a.png",
               "https://evil.example/a.png"}

\* urlparse(value).scheme
Scheme(value) ==
    CASE value \in {"https://example.com/", "https://jake.tw/a.png",
                    "https://evil.example/a.png"} -> "https"
      [] value = "javascript:alert(1)" -> "javascript"
      [] value = "data:image/png;base64,AA" -> "data"
      [] OTHER -> ""

custom_attribute_filter(tag, name, value) ==
    IF name \in {"class", "id", "alt"} THEN TRUE
    ELSE IF tag = "img" /\ name = "src" THEN TrustedSrc(value)
    ELSE IF tag = "a" /\ name = "href" THEN HttpUrl(value)
    ELSE tag = "details" /\ name = "open"

\* bleach's check of URI-valued attributes against protocols=['http','https']:
\* a value with a scheme needs an allowed one, a value without one passes
sanitize_uri_value(value) == Scheme(value) \in {"", "http", "https"}

\* an attribute stays when the filter accepts it and, for href and src, its
\* protocol is allowed
KeepAttr(tag, a) ==
    /\ custom_attribute_filter(tag, a.name, a.value)
    /\ a.name \in {"href", "src"} => sanitize_uri_value(a.value)

RECURSIVE FilterAttrs(_, _)
FilterAttrs(tag, attrs) ==
    IF attrs = <<>> THEN <<>>
    ELSE (IF KeepAttr(tag, Head(attrs)) THEN <<Head(attrs)>> ELSE <<>>)
         \o FilterAttrs(tag, Tail(attrs))

\* mutant: the serializer escapes what is escaped already
Escape_again(data) ==
    IF data = "a<b" THEN "a&lt;b"
    ELSE IF data = "a&lt;b" THEN "a&amp;lt;b" ELSE data

\* the serializer escapes the markup characters of text
Escape(data) == IF data = "a<b" THEN "a&lt;b" ELSE data

\* elements with no end tag
VoidTags == {"img"}

RECURSIVE CloseAll(_)
CloseAll(open) ==
    IF open = <<>> THEN <<>> ELSE <<End(Head(open))>> \o CloseAll(Tail(open))

RECURSIVE CloseUpTo(_, _)
CloseUpTo(open, tag) ==
    IF Head(open) = tag THEN <<End(tag)>>
    ELSE <<End(Head(open))>> \o CloseUpTo(Tail(open), tag)

RECURSIVE OpenAfter(_, _)
OpenAfter(open, tag) ==
    IF Head(open) = tag THEN Tail(open) ELSE OpenAfter(Tail(open), tag)

\* the parser builds a tree: an end tag closes the elements opened since its
\* start tag, an end tag of no open element is ignored, the end of the input
\* closes what is open
RECURSIVE ParseTree(_, _)
ParseTree(toks, open) ==
    IF toks = <<>> THEN CloseAll(open)
    ELSE LET t == Head(toks)
             IsOpen == \E i \in 1..Len(open) : open[i] = t.tag
         IN  CASE t.kind = "text" -> <<t>> \o ParseTree(Tail(toks), open)
               [] t.kind = "start" ->
                    <<t>> \o ParseTree(Tail(toks),
                                       IF t.tag \in VoidTags THEN open
                                       ELSE <<t.tag>> \o open)
               [] OTHER ->
                    IF IsOpen
                    THEN CloseUpTo(open, t.tag)
                         \o ParseTree(Tail(toks), OpenAfter(open, t.tag))
                    ELSE ParseTree(Tail(toks), open)

\* the sanitizer filter on one token: strip=True removes a tag that is not
\* allowed, an allowed one keeps the attributes that pass
StripToken(tok) ==
    IF tok.kind = "text" THEN <<Text(Escape(tok.data))>>
    ELSE IF tok.tag \in ALLOWED_HTML_TAGS
         THEN <<[tok EXCEPT !.attrs = FilterAttrs(tok.tag, tok.attrs)]>>
         ELSE <<>>

RECURSIVE SkipElement(_, _)
SkipElement(toks, tag) ==
    IF toks = <<>> THEN <<>>
    ELSE IF Head(toks) = End(tag) THEN Tail(toks)
    ELSE SkipElement(Tail(toks), tag)

\* mutant: an element that is not allowed is removed with what it holds
RECURSIVE Sanitize_drop_content(_)
Sanitize_drop_content(toks) ==
    IF toks = <<>> THEN <<>>
    ELSE LET t == Head(toks)
         IN  IF t.kind = "start" /\ t.tag \notin ALLOWED_HTML_TAGS
             THEN Sanitize_drop_content(SkipElement(Tail(toks), t.tag))
             ELSE StripToken(t) \o Sanitize_drop_content(Tail(toks))

RECURSIVE Sanitize(_)
Sanitize(toks) ==
    IF toks = <<>> THEN <<>>
    ELSE StripToken(Head(toks)) \o Sanitize(Tail(toks))

\* bleach.clean(html, tags, attributes, protocols, strip=True)
bleach_clean(html) == Sanitize(ParseTree(html, <<>>))

\* html_content[:100] in the except block works on these types only
Sliceable(type) == type \in {"str", "bytes"}

\* clean_html_content with its try / except: bleach.clean raises TypeError
\* on a value that is no str, or fails inside (fails); the except block logs
\* a snippet of the input and returns ''
clean_html_content_call(html_content, fails) ==
    IF html_content.type = "str" /\ ~fails
    THEN [raised |-> "none", failed |-> FALSE,
          value |-> bleach_clean(html_content.html)]
    ELSE IF Sliceable(html_content.type)
         THEN [raised |-> "none", failed |-> TRUE, value |-> <<>>]
         ELSE [raised |-> "TypeError", failed |-> TRUE, value |-> <<>>]

\* clean_html_content on a string the cleaner does not fail on
clean_html_content(html) ==
    clean_html_content_call([type |-> "str", html |-> html], FALSE).value

\* the free-text fields of a submitted post form
TextFields ==
    {[title |-> "Hello", thumbnail |-> "a.png", description |-> "first",
      content |-> <<Start("p", <<>>), Text("hi"), End("p")>>],
     [title |-> "World", thumbnail |-> NoneStr, description |-> "second",
      content |-> <<Start("script", <<>>), Text("x"), End("script")>>]}

\* submit buttons of PostForm that can be present in request.form
FormKeys == {{"publish"}, {"save"}, {"update"}, {"preview"}}

\* action strings a caller of PostService can pass
Actions == {"publish", "save", "update", "draft"}

\* status values a model object can carry before the hook sees it
StatusValues == {"draft", "published", "archived"}

\* what the dashboard can submit for a category
CatForms ==
    {[name |-> "Tech", slug |-> "tech", description |-> "about"],
     [name |-> "Uncategorized", slug |-> "tech", description |-> "about"],
     [name |-> "Tech", slug |-> "uncategorized", description |-> "about"]}

DefaultDescription == "Default category for posts without a specific category."

\* injected storage failure at COMMIT (an OperationalError)
Faults == {"none", "commit"}

-----------------------------------------------------------------------------
(* The store *)

Max(S) == CHOOSE m \in S : \A n \in S : n <= m

\* INTEGER PRIMARY KEY of SQLite: one more than the largest id in the table
NextId(rows) == Max({r.id : r \in rows} \cup {0}) + 1

PostById(ps, id) == CHOOSE p \in ps : p.id = id

CatById(cs, id) == CHOOSE c \in cs : c.id = id

\* Post.slug unique=True
PostSlugUnique(ps) == \A p, q \in ps : p.slug = q.slug => p.id = q.id

\* Category.name unique=True, Category.slug unique=True
CatUnique(cs) ==
    \A c, d \in cs : (c.name = d.name \/ c.slug = d.slug) => c.id = d.id

\* Category.query.filter_by(slug='uncategorized')
DefaultCats(cs) == {c \in cs : c.slug = "uncategorized"}

\* mutant: the default category recognised by its name
is_default_category_by_name(c) == c.name = "Uncategorized"

\* mutant: no category is taken for the default
is_default_category_never(c) == FALSE

\* Category.is_default_category
is_default_category(c) == c.slug = "uncategorized"

\* mutant: any status passes
validate_status_any(p) == TRUE

\* Post.validate_status
validate_status(p) == p.status \in {"draft", "published"}

\* mutant: the hook writes the content as it is
clean_post_content_raw(p) == p

\* before_insert / before_update hook: the object as it is written, and
\* whether validate_status raised
clean_post_content(p) ==
    [p EXCEPT !.content =
        IF p.content # <<>> THEN clean_html_content(p.content) ELSE p.content]

-----------------------------------------------------------------------------
(* Flush and commit *)

\* mutant: posts.slug carries no unique index
FlushError_no_index(ps, p) ==
    IF ~validate_status(p) THEN "ValueError"
    ELSE IF p.title = NoneStr THEN "IntegrityError:posts.title"
    ELSE "none"

\* what flushing the post row p into a table holding the rows ps raises:
\* the hook's validate_status first, then the database's constraints (title
\* is NOT NULL, slug is unique)
FlushError(ps, p) ==
    IF ~validate_status(p) THEN "ValueError"
    ELSE IF p.title = NoneStr THEN "IntegrityError:posts.title"
    ELSE IF \E q \in ps : q.id # p.id /\ q.slug = p.slug
         THEN "IntegrityError:posts.slug"
         ELSE "none"

\* what flushing the category row c into a table holding the rows cs raises
CatFlushError(cs, c) ==
    IF \E d \in cs : d.id # c.id /\ d.name = c.name
    THEN "IntegrityError:categories.name"
    ELSE IF \E d \in cs : d.id # c.id /\ d.slug = c.slug
         THEN "IntegrityError:categories.slug"
         ELSE "none"

\* mutant: a failure of the commit goes unnoticed
CommitError_ignored(flushError, fault) == flushError

\* db.session.commit(): the flush error if any, else the injected failure
CommitError(flushError, fault) ==
    IF flushError # "none" THEN flushError
    ELSE IF fault = "commit" THEN "OperationalError" ELSE "none"

IsIntegrityError(e) ==
    e \in {"IntegrityError:posts.slug", "IntegrityError:posts.title",
           "IntegrityError:categories.name", "IntegrityError:categories.slug"}

\* the words of str(e): the driver's message, and for a database error the
\* statement that failed, with the columns it names
MessageWords(e) ==
    CASE e = "IntegrityError:posts.slug" ->
           {"unique", "posts", "slug", "insert", "title", "content", "status"}
      [] e = "IntegrityError:posts.title" ->
           {"not", "null", "posts", "title", "insert", "slug", "content", "status"}
      [] e = "IntegrityError:categories.name" ->
           {"unique", "categories", "name", "insert", "slug", "description"}
      [] e = "IntegrityError:categories.slug" ->
           {"unique", "categories", "slug", "insert", "name", "description"}
      [] OTHER -> {}

\* 'slug' in str(e).lower()
MentionsSlug(e) == "slug" \in MessageWords(e)

\* failures of the cache backend in the invalidation that follows a commit:
\* in clear_category_cache, or in the clear_stats_cache called after it
CacheFaults == {"cache_category", "cache_stats"}

-----------------------------------------------------------------------------
(* CategoryService *)

NewDefaultCategory(cs) ==
    [id |-> NextId(cs), name |-> "Uncategorized", slug |-> "uncategorized",
     description |-> DefaultDescription]

\* get_or_create_default_category on the session's view cs of the table:
\* the table after the flush, the category's id, the error the flush raised
get_or_create_default_category(cs) ==
    IF DefaultCats(cs) # {}
    THEN [cats |-> cs, id |-> (CHOOSE c \in DefaultCats(cs) : TRUE).id,
          error |-> "none", created |-> FALSE]
    ELSE LET c == NewDefaultCategory(cs)
             e == CatFlushError(cs, c)
         IN  IF e = "none"
             THEN [cats |-> cs \cup {c}, id |-> c.id, error |-> "none",
                   created |-> TRUE]
             ELSE [cats |-> cs, id |-> None, error |-> e, created |-> FALSE]

-----------------------------------------------------------------------------
(* PostService *)

\* what a request returns: the result dict of the service (success, error_type,
\* status, post_id), the exception that escaped the handler, whether the
\* default category was flushed in the call, how many posts the call moved
Result(success, error_type, status, post_id, raised, flushed) ==
    [success |-> success, error_type |-> error_type, status |-> status,
     post_id |-> post_id, raised |-> raised, flushed_default |-> flushed,
     moved |-> 0, cause |-> "none"]

\* a failure result and the exception the handler caught (and logged)
Failed(error_type, cause, flushed) ==
    [Result(FALSE, error_type, NoneStr, None, "none", flushed)
        EXCEPT !.cause = cause]

Outcome(ps, cs, res) == [posts |-> ps, cats |-> cs, res |-> res]

\* mutant: every new post is a draft
CreateStatus_draft(action) == "draft"

\* status = 'published' if action == 'publish' else 'draft'
CreateStatus(action) == IF action = "publish" THEN "published" ELSE "draft"

\* the exception handlers of create_post
CreateErrorType(e) ==
    IF IsIntegrityError(e)
    THEN (IF MentionsSlug(e) THEN "integrity" ELSE "database")
    ELSE "unexpected"

\* mutant: the rollback of the handler undoes the transaction just committed
rollback_after_commit_undo(committed, start) == start

\* db.session.rollback() in 'except Exception', reached from a statement
\* after db.session.commit(): the committed rows stay
rollback_after_commit(committed, start) == committed

\* a missing, None or 0 category_id: not category_id or category_id == 0
NoCategory(category_id) == category_id \in {None, 0}

create_post(ps, cs, form_data, action, user, fault) ==
    LET g == get_or_create_default_category(cs)
        useDefault == NoCategory(form_data.category_id)
    IN
    IF useDefault /\ g.error # "none"
    THEN \* the flush raises before the try block: the 500 handler rolls back
         Outcome(ps, cs, Result(FALSE, "raised", NoneStr, None, g.error, FALSE))
    ELSE
    LET category_id == IF useDefault THEN g.id ELSE form_data.category_id
        cs1 == IF useDefault THEN g.cats ELSE cs
        flushed == useDefault /\ g.created
        status == CreateStatus(action)
        post == clean_post_content(
                  [id |-> NextId(ps),
                   title |-> form_data.title,
                   slug |-> Lower(form_data.slug),
                   thumbnail |-> form_data.thumbnail,
                   description |-> form_data.description,
                   content |-> form_data.content,
                   category_id |-> category_id,
                   status |-> status,
                   author_id |-> user.id])
        e == CommitError(FlushError(ps, post), fault)
    IN
    IF e = "none" /\ fault \in CacheFaults
    THEN \* committed; the invalidation raises inside the try block
         Outcome(rollback_after_commit(ps \cup {post}, ps),
                 rollback_after_commit(cs1, cs),
                 Failed("unexpected", "CacheError", flushed))
    ELSE IF e = "none"
    THEN Outcome(ps \cup {post}, cs1,
                 Result(TRUE, "none", status, post.id, "none", flushed))
    ELSE \* db.session.rollback()
         Outcome(ps, cs, Failed(CreateErrorType(e), e, flushed))

\* mutant: 'update' falls through to draft, as in create_post
UpdateStatus_draft(old, action) ==
    IF action = "publish" THEN "published" ELSE "draft"

\* mutant: every action but 'save' publishes
UpdateStatus_publish(old, action) ==
    IF action = "save" THEN "draft" ELSE "published"

\* the status update_post gives the post for an action
UpdateStatus(old, action) ==
    IF action = "publish" THEN "published"
    ELSE IF action = "save" THEN "draft"
    ELSE old

\* the exception handlers of update_post
UpdateErrorType(e) == IF IsIntegrityError(e) THEN "integrity" ELSE "unexpected"

update_post(ps, cs, post, form_data, action, fault) ==
    LET g == get_or_create_default_category(cs)
        useDefault == NoCategory(form_data.category_id)
    IN
    IF useDefault /\ g.error # "none"
    THEN Outcome(ps, cs, Result(FALSE, "raised", NoneStr, None, g.error, FALSE))
    ELSE
    LET category_id == IF useDefault THEN g.id ELSE form_data.category_id
        cs1 == IF useDefault THEN g.cats ELSE cs
        flushed == useDefault /\ g.created
        new == clean_post_content(
                 [post EXCEPT !.status = UpdateStatus(post.status, action),
                              !.title = form_data.title,
                              !.slug = Lower(form_data.slug),
                              !.thumbnail = form_data.thumbnail,
                              !.description = form_data.description,
                              !.content = form_data.content,
                              !.category_id = category_id])
        e == CommitError(FlushError(ps, new), fault)
    IN
    IF e = "none" /\ fault \in CacheFaults
    THEN Outcome(rollback_after_commit((ps \ {post}) \cup {new}, ps),
                 rollback_after_commit(cs1, cs),
                 Failed("unexpected", "CacheError", flushed))
    ELSE IF e = "none"
    THEN Outcome((ps \ {post}) \cup {new}, cs1,
                 Result(TRUE, "none", new.status, post.id, "none", flushed))
    ELSE Outcome(ps, cs, Failed(UpdateErrorType(e), e, flushed))

\* mutant: the delete takes the other posts of the category with it
delete_post_cascade(ps, cs, post, fault) ==
    Outcome({p \in ps : p.category_id # post.category_id}, cs,
            Result(TRUE, "none", NoneStr, post.id, "none", FALSE))

delete_post(ps, cs, post, fault) ==
    LET e == CommitError("none", fault)
    IN  IF e = "none" /\ fault \in CacheFaults
        THEN Outcome(rollback_after_commit(ps \ {post}, ps), cs,
                     Failed("unexpected", "CacheError", FALSE))
        ELSE IF e = "none"
        THEN Outcome(ps \ {post}, cs,
                     Result(TRUE, "none", NoneStr, post.id, "none", FALSE))
        ELSE Outcome(ps, cs, Failed("unexpected", e, FALSE))

\* mutant: having the is_admin attribute is taken for being an admin
check_post_permission_hasattr(post, user) ==
    post.author_id = user.id \/ user.is_admin \in BOOLEAN

check_post_permission(post, user) == post.author_id = user.id \/ user.is_admin

-----------------------------------------------------------------------------
(* Dashboard routes *)

\* mutant: the first button named in the code wins only when it comes alone
_determine_post_action_last(form_keys) ==
    IF "update" \in form_keys THEN "update"
    ELSE IF "save" \in form_keys THEN "save"
    ELSE IF "publish" \in form_keys THEN "publish"
    ELSE "save"

_determine_post_action(form_keys) ==
    IF "publish" \in form_keys THEN "publish"
    ELSE IF "save" \in form_keys THEN "save"
    ELSE IF "update" \in form_keys THEN "update"
    ELSE "save"

\* PostForm.validate_slug: the lowered slug belongs to no other post
validate_slug(ps, slug, original_id) ==
    ~\E p \in ps : p.slug = Lower(slug) /\ p.id # original_id

\* PostForm.validate(): the Regexp on slug, validate_slug, the category choices
PostFormValid(ps, cs, form, original_id) ==
    /\ SlugRegexp(form.slug)
    /\ validate_slug(ps, form.slug, original_id)
    /\ form.category_id \in {0} \cup {c.id : c \in cs}

\* form_data as the route builds it: validate_slug lowered the slug,
\* validate_content cleaned the content
FormData(form) ==
    [form EXCEPT !.slug = Lower(form.slug),
                 !.content = clean_html_content(form.content)]

Rejected(ps, cs, error_type) ==
    Outcome(ps, cs, Result(FALSE, error_type, NoneStr, None, "none", FALSE))

new_post(ps, cs, form, form_keys, user, fault) ==
    IF ~PostFormValid(ps, cs, form, None)
    THEN Rejected(ps, cs, "validation")
    ELSE create_post(ps, cs, FormData(form), _determine_post_action(form_keys),
                     user, fault)

\* mutant: the user who saves the edit becomes the author
edit_post_takeover(ps, cs, post, form, form_keys, user, fault) ==
    IF ~check_post_permission(post, user)
    THEN Rejected(ps, cs, "forbidden")
    ELSE IF ~PostFormValid(ps, cs, form, post.id)
    THEN Rejected(ps, cs, "validation")
    ELSE update_post(ps, cs, [post EXCEPT !.author_id = user.id],
                     FormData(form), _determine_post_action(form_keys), fault)

edit_post(ps, cs, post, form, form_keys, user, fault) ==
    IF ~check_post_permission(post, user)
    THEN Rejected(ps, cs, "forbidden")
    ELSE IF ~PostFormValid(ps, cs, form, post.id)
    THEN Rejected(ps, cs, "validation")
    ELSE update_post(ps, cs, post, FormData(form),
                     _determine_post_action(form_keys), fault)

delete_post_route(ps, cs, post, user, fault) ==
    IF ~check_post_permission(post, user)
    THEN Rejected(ps, cs, "forbidden")
    ELSE delete_post(ps, cs, post, fault)

\* CategoryForm.validate_slug
validate_category_slug(cs, slug, original_id) ==
    ~\E c \in cs : c.slug = slug /\ c.id # original_id

CatOk(ps, cs, id) ==
    Outcome(ps, cs, Result(TRUE, "none", NoneStr, id, "none", FALSE))

new_category(ps, cs, form, fault) ==
    IF ~validate_category_slug(cs, form.slug, None)
    THEN Rejected(ps, cs, "validation")
    ELSE
    LET cat == [id |-> NextId(cs), name |-> form.name, slug |-> form.slug,
                description |-> form.description]
        e == CommitError(CatFlushError(cs, cat), fault)
    IN  IF e = "none" THEN CatOk(ps, cs \cup {cat}, cat.id)
        ELSE Rejected(ps, cs, IF IsIntegrityError(e) THEN "integrity"
                               ELSE "unexpected")

edit_category(ps, cs, category, form, fault) ==
    IF is_default_category(category)
    THEN Rejected(ps, cs, "protected")
    ELSE IF ~validate_category_slug(cs, form.slug, category.id)
    THEN Rejected(ps, cs, "validation")
    ELSE
    LET new == [category EXCEPT !.name = form.name, !.slug = form.slug,
                                !.description = form.description]
        e == CommitError(CatFlushError(cs, new), fault)
    IN  IF e = "none" THEN CatOk(ps, (cs \ {category}) \cup {new}, category.id)
        ELSE Rejected(ps, cs, IF IsIntegrityError(e) THEN "integrity"
                               ELSE "unexpected")

\* Category.posts has no delete cascade: on the delete of a category the
\* ORM sets category_id of the posts still attached to it to NULL
Nullify(ps, category_id) ==
    {IF p.category_id = category_id THEN [p EXCEPT !.category_id = None] ELSE p
        : p \in ps}

\* mutant: the loop moves nothing
MovePosts_none(ps, category_id, target_id) == ps

\* the loop of delete_category: every post of the category moves to target
MovePosts(ps, category_id, target_id) ==
    {IF p.category_id = category_id
     THEN clean_post_content([p EXCEPT !.category_id = target_id])
     ELSE p : p \in ps}

\* mutant: a category is deleted whether or not its posts have a place to go
delete_category_orphan(ps, cs, category, fault) ==
    CatOk(Nullify(ps, category.id), cs \ {category}, category.id)

delete_category(ps, cs, category, fault) ==
    IF is_default_category(category)
    THEN Rejected(ps, cs, "protected")
    ELSE
    LET total_post_count == Cardinality({p \in ps : p.category_id = category.id})
    IN
    IF total_post_count > 0 /\ DefaultCats(cs) = {}
    THEN Rejected(ps, cs, "no_default")
    ELSE
    LET uncategorized == CHOOSE c \in DefaultCats(cs) : TRUE
        moved == IF total_post_count > 0
                 THEN MovePosts(ps, category.id, uncategorized.id)
                 ELSE ps
        e == CommitError("none", fault)
        done == CatOk(Nullify(moved, category.id), cs \ {category}, category.id)
    IN  IF e = "none"
        THEN [done EXCEPT !.res.moved = total_post_count]
        ELSE Rejected(ps, cs, "unexpected")

\* a script writes a Post object through the session and commits, as
\* verify_pages.seed does: an insert, or an update of the row with its id
seed_post(ps, cs, post) ==
    LET p == clean_post_content(post)
        e == FlushError(ps, p)
    IN  IF e = "none"
        THEN Outcome({q \in ps : q.id # p.id} \cup {p}, cs,
                     Result(TRUE, "none", p.status, p.id, "none", FALSE))
        ELSE Outcome(ps, cs, Result(FALSE, "raised", NoneStr, None, e, FALSE))

-----------------------------------------------------------------------------
(* Requests *)

\* what can be submitted for a post
PostForms(ts, slugs, cids) ==
    {[title |-> t.title, slug |-> s, thumbnail |-> t.thumbnail,
      description |-> t.description, content |-> t.content, category_id |-> c]
        : t \in ts, s \in slugs, c \in cids}

\* the inputs of the dashboard scenarios, and of the direct service calls
RouteTexts == {t \in TextFields : t.title = "World"}
RouteSlugs == {s \in RawSlugs : SlugRegexp(s)}
ServiceUsers == {u \in Users : u.is_admin}

CatIds(cs) == {c.id : c \in cs}

\* room for the category get_or_create_default_category may add
RoomForDefault(cs, category_id) ==
    \/ ~NoCategory(category_id)
    \/ DefaultCats(cs) # {}
    \/ NextId(cs) <= MaxCatId

\* the slug of the form belongs to a post other than the one written
DupSlug(ps, slug, id) == \E p \in ps : p.slug = Lower(slug) /\ p.id # id

\* the call of PostService a request made: its action, whether its slug was
\* taken, whether it named no category
NoCall == [action |-> NoneStr, dup_slug |-> FALSE, no_category |-> FALSE]

Call(ps, form, action, id) ==
    [action |-> action, dup_slug |-> DupSlug(ps, form.slug, id),
     no_category |-> NoCategory(form.category_id)]

\* a route reached PostService unless permission or validation stopped it
RouteCall(out, call) ==
    IF out.res.error_type \in {"forbidden", "validation"} THEN NoCall ELSE call

NoRequest ==
    [op |-> "none", target |-> None, call |-> NoCall,
     res |-> Result(FALSE, "none", NoneStr, None, "none", FALSE)]

\* the store after the request, and the record of the request (the handler,
\* the id of the row it was aimed at) and of its result
Served(op, target, call, out) ==
    /\ posts' = out.posts
    /\ cats' = out.cats
    /\ last' = [op |-> op, target |-> target, call |-> call, res |-> out.res]
    /\ UNCHANGED <<req, cache, env, san, page>>

\* the memoized value of get_dashboard_stats (memo), what the request's call
\* of it returned, and the memo the last invalidation deleted
NoStats ==
    [posts_count |-> None, drafts_count |-> None, categories_count |-> None]

NoCache == [memo |-> NoStats, returned |-> NoStats, dropped |-> NoStats]

\* current_user of the request and the failure its storage or cache met
NoEnv == [user |-> None, fault |-> "none"]

\* the value given to clean_html_content and the outcomes of its calls
NoSan == [input |-> [type |-> "str", html |-> <<>>], calls |-> <<>>]

\* the response of a public page: the route and the url it was asked with,
\* whether the visitor is logged in, the status code, the posts it shows
NoPage ==
    [route |-> "none", url |-> NoneStr, authenticated |-> FALSE, code |-> 0,
     served |-> {}]

Init ==
    /\ posts = {}
    /\ cats = {}
    /\ last = NoRequest
    /\ req = <<>>
    /\ cache = NoCache
    /\ env = NoEnv
    /\ san = NoSan
    /\ page = NoPage

(* the dashboard routes *)

NewPost ==
    \E form \in PostForms(RouteTexts, RouteSlugs, {0} \cup CatIds(cats)),
       keys \in FormKeys, user \in Users :
        /\ NextId(posts) <= MaxPostId
        /\ RoomForDefault(cats, form.category_id)
        /\ LET out == new_post(posts, cats, form, keys, user, "none")
               call == Call(posts, form, _determine_post_action(keys), None)
           IN  Served("new_post", None, RouteCall(out, call), out)

EditPost ==
    \E post \in posts,
       form \in PostForms(RouteTexts, RouteSlugs, {0} \cup CatIds(cats)),
       keys \in FormKeys, user \in Users :
        /\ RoomForDefault(cats, form.category_id)
        /\ LET out == edit_post(posts, cats, post, form, keys, user, "none")
               call == Call(posts, form, _determine_post_action(keys), post.id)
           IN  Served("edit_post", post.id, RouteCall(out, call), out)

DeletePost ==
    \E post \in posts, user \in Users, fault \in Faults :
        Served("delete_post", post.id, NoCall,
               delete_post_route(posts, cats, post, user, fault))

NewCategory ==
    \E form \in CatForms, fault \in Faults :
        /\ NextId(cats) <= MaxCatId
        /\ Served("new_category", None, NoCall, new_category(posts, cats, form, fault))

EditCategory ==
    \E category \in cats, form \in CatForms, fault \in Faults :
        Served("edit_category", category.id, NoCall,
               edit_category(posts, cats, category, form, fault))

DeleteCategory ==
    \E category \in cats, fault \in Faults :
        Served("delete_category", category.id, NoCall,
               delete_category(posts, cats, category, fault))

Next ==
    \/ NewPost
    \/ EditPost
    \/ DeletePost
    \/ NewCategory
    \/ EditCategory
    \/ DeleteCategory

Spec == Init /\ [][Next]_vars

(* PostService called directly, and a script writing a Post object *)

CreatePost ==
    \E form \in PostForms(TextFields, RawSlugs, {None, 0} \cup CatIds(cats)),
       action \in Actions, user \in ServiceUsers :
        /\ NextId(posts) <= MaxPostId
        /\ RoomForDefault(cats, form.category_id)
        /\ Served("create_post", None, Call(posts, form, action, None),
                  create_post(posts, cats, form, action, user, "none"))

UpdatePost ==
    \E post \in posts,
       form \in PostForms(RouteTexts, RawSlugs, {None} \cup CatIds(cats)),
       action \in Actions :
        /\ RoomForDefault(cats, form.category_id)
        /\ Served("update_post", post.id, Call(posts, form, action, post.id),
                  update_post(posts, cats, post, form, action, "none"))

SeedPost ==
    \E form \in PostForms(RouteTexts, RouteSlugs, CatIds(cats)),
       status \in StatusValues, user \in ServiceUsers,
       id \in {NextId(posts)} \cup {p.id : p \in posts} :
        /\ id <= MaxPostId
        /\ Served("seed_post", id, Call(posts, form, status, id),
                  seed_post(posts, cats,
                            [id |-> id, title |-> form.title,
                             slug |-> form.slug, thumbnail |-> form.thumbnail,
                             description |-> form.description,
                             content |-> form.content,
                             category_id |-> form.category_id,
                             status |-> status, author_id |-> user.id]))

ServiceNext ==
    \/ CreatePost
    \/ UpdatePost
    \/ SeedPost
    \/ NewCategory
    \/ DeleteCategory

ServiceSpec == Init /\ [][ServiceNext]_vars

-----------------------------------------------------------------------------
(* Concurrent requests: each runs in its own session and transaction; the   *)
(* steps are the points where a request reads or writes the database        *)

Reqs == {"A", "B"}

\* the buttons and the user of the concurrent scenarios
ConcKeys == {{"publish"}, {"save"}}
ConcUsers == {u \in Users : u.is_admin}

IdleReq ==
    [pc |-> "idle", kind |-> "none", loaded |-> {}, form |-> {},
     action |-> NoneStr, user |-> None, saw_none |-> FALSE, sess_cats |-> {},
     category_id |-> None, moving |-> {},
     res |-> Result(FALSE, "none", NoneStr, None, "none", FALSE)]

ConcInit ==
    /\ posts = {}
    /\ cats = {}
    /\ last = NoRequest
    /\ req = [r \in Reqs |-> IdleReq]
    /\ cache = NoCache
    /\ env = NoEnv
    /\ san = NoSan
    /\ page = NoPage

\* the rows other open transactions have inserted and not committed
OthersUncommitted(r) == UNION {req[o].sess_cats : o \in Reqs \ {r}}

\* new_post / edit_post up to the call of PostService: the post is loaded,
\* permission is checked, the form is validated against the committed store
Submit(r) ==
    /\ req[r].pc = "idle"
    /\ \E kind \in {"new_post", "edit_post"},
          form \in PostForms(RouteTexts, RouteSlugs, {0} \cup CatIds(cats)),
          keys \in ConcKeys, user \in ConcUsers :
        \E loaded \in IF kind = "new_post" THEN {{}} ELSE {{p} : p \in posts} :
          LET id == IF loaded = {} THEN None
                    ELSE (CHOOSE p \in loaded : TRUE).id
              allowed == \A p \in loaded : check_post_permission(p, user)
              valid == PostFormValid(posts, cats, form, id)
          IN  /\ kind = "new_post" => NextId(posts) <= MaxPostId
              /\ req' = [req EXCEPT ![r] =
                   IF allowed /\ valid
                   THEN [IdleReq EXCEPT !.pc = "service", !.kind = kind,
                                        !.loaded = loaded,
                                        !.form = {FormData(form)},
                                        !.action = _determine_post_action(keys),
                                        !.user = user.id]
                   ELSE [IdleReq EXCEPT !.pc = "done", !.kind = kind,
                           !.res = Result(FALSE,
                                     IF allowed THEN "validation" ELSE "forbidden",
                                     NoneStr, None, "none", FALSE)]]
    /\ UNCHANGED <<posts, cats, last, cache, env, san, page>>

TheForm(r) == CHOOSE f \in req[r].form : TRUE

\* create_post / update_post resolve the category: with none given, the
\* query of get_or_create_default_category runs on the committed rows and
\* the session's own
Resolve(r) ==
    /\ req[r].pc = "service"
    /\ LET view == cats \cup req[r].sess_cats
           given == TheForm(r).category_id
       IN  req' = [req EXCEPT ![r] =
             IF ~NoCategory(given)
             THEN [@ EXCEPT !.pc = "commit", !.category_id = given]
             ELSE IF DefaultCats(view) # {}
             THEN [@ EXCEPT !.pc = "commit",
                            !.category_id = (CHOOSE c \in DefaultCats(view) : TRUE).id]
             ELSE [@ EXCEPT !.pc = "flush_default", !.saw_none = TRUE]]
    /\ UNCHANGED <<posts, cats, last, cache, env, san, page>>

\* get_or_create_default_category adds the category and flushes: the INSERT
\* waits while another open transaction holds a row with its name or slug,
\* and raises IntegrityError when a committed row has them; nothing catches
\* it before the 500 handler, which rolls the session back
FlushDefault(r) ==
    /\ req[r].pc = "flush_default"
    /\ NextId(cats \cup OthersUncommitted(r)) <= MaxCatId
    /\ LET c == NewDefaultCategory(cats \cup OthersUncommitted(r))
           e == CatFlushError(cats, c)
       IN  /\ CatFlushError(OthersUncommitted(r), c) = "none"
           /\ req' = [req EXCEPT ![r] =
                IF e = "none"
                THEN [@ EXCEPT !.pc = "commit", !.sess_cats = {c},
                               !.category_id = c.id]
                ELSE [@ EXCEPT !.pc = "done", !.sess_cats = {},
                        !.res = Result(FALSE, "raised", NoneStr, None, e, FALSE)]]
    /\ UNCHANGED <<posts, cats, last, cache, env, san, page>>

\* the row an UPDATE leaves: the columns the session changed on the object it
\* loaded are written over the row as it is now
Written(cur, loaded, obj) ==
    [f \in DOMAIN cur |-> IF obj[f] # loaded[f] THEN obj[f] ELSE cur[f]]

\* the object create_post builds, or update_post assigns to, before the flush
PostObject(r) ==
    LET f == TheForm(r)
    IN  IF req[r].kind = "new_post"
        THEN [id |-> NextId(posts), title |-> f.title, slug |-> Lower(f.slug),
              thumbnail |-> f.thumbnail, description |-> f.description,
              content |-> f.content, category_id |-> req[r].category_id,
              status |-> CreateStatus(req[r].action), author_id |-> req[r].user]
        ELSE LET old == CHOOSE p \in req[r].loaded : TRUE
             IN  [old EXCEPT !.status = UpdateStatus(old.status, req[r].action),
                             !.title = f.title, !.slug = Lower(f.slug),
                             !.thumbnail = f.thumbnail,
                             !.description = f.description,
                             !.content = f.content,
                             !.category_id = req[r].category_id]

\* db.session.commit() of create_post / update_post: the post is flushed
\* through the hook and the transaction commits, or it is rolled back
Commit(r) ==
    /\ req[r].pc = "commit"
    /\ LET obj == clean_post_content(PostObject(r))
           flushed == req[r].sess_cats # {}
           current == {p \in posts : p.id = obj.id}
           row == IF req[r].kind = "new_post" \/ current = {} THEN obj
                  ELSE Written(CHOOSE p \in current : TRUE,
                               CHOOSE p \in req[r].loaded : TRUE, obj)
           e == IF req[r].kind = "edit_post" /\ current = {}
                THEN "StaleDataError"
                ELSE FlushError(posts, row)
           failed == IF req[r].kind = "new_post" THEN CreateErrorType(e)
                     ELSE UpdateErrorType(e)
       IN  IF e = "none"
           THEN /\ posts' = (posts \ current) \cup {row}
                /\ cats' = cats \cup req[r].sess_cats
                /\ req' = [req EXCEPT ![r] =
                     [@ EXCEPT !.pc = "done", !.sess_cats = {},
                        !.res = Result(TRUE, "none", row.status, row.id, "none",
                                       flushed)]]
           ELSE /\ UNCHANGED <<posts, cats>>
                /\ req' = [req EXCEPT ![r] =
                     [@ EXCEPT !.pc = "done", !.sess_cats = {},
                        !.res = Result(FALSE, failed, NoneStr, None, "none",
                                       flushed)]]
    /\ UNCHANGED <<last, cache, env, san, page>>

\* the response is sent and the worker takes the next request
Finish(r) ==
    /\ req[r].pc = "done"
    /\ req' = [req EXCEPT ![r] = IdleReq]
    /\ UNCHANGED <<posts, cats, last, cache, env, san, page>>

ConcNext ==
    \E r \in Reqs :
        \/ Submit(r)
        \/ Resolve(r)
        \/ FlushDefault(r)
        \/ Commit(r)
        \/ Finish(r)

ConcSpec == ConcInit /\ [][ConcNext]_vars

-----------------------------------------------------------------------------
(* Claims on the dashboard routes (Spec) *)

\* C1 (as stated): no request turns a persisted published post into a draft
C1_NoUnpublish ==
    [][\A p \in posts : \A q \in posts' :
          (q.id = p.id /\ p.status = "published") => q.status # "draft"]_vars

\* C1 (amended): a published post becomes a draft only through an edit whose
\* action is 'save'; publish and update, and new posts, never un-publish
C1_UnpublishOnlyBySave ==
    [][\A p \in posts : \A q \in posts' :
          (q.id = p.id /\ p.status = "published" /\ q.status = "draft")
          => /\ last'.op = "edit_post"
             /\ last'.target = p.id
             /\ last'.call.action = "save"
             /\ last'.res.success]_vars

\* a published post has been edited with action 'update' and is still published
C1_Witness ==
    /\ last.op = "edit_post"
    /\ last.call.action = "update"
    /\ last.res.success
    /\ \E p \in posts : p.id = last.target /\ p.status = "published"

\* C9: a successful delete_category removes exactly that non-default category,
\* deletes no post, leaves every post of the category on the category whose
\* slug is 'uncategorized' and every other post as it was; a failed one
\* changes nothing
C9_DeleteReassigns ==
    [][last'.op = "delete_category" =>
         IF last'.res.success
         THEN \E c \in cats :
                /\ c.id = last'.target
                /\ ~is_default_category(c)
                /\ cats' = cats \ {c}
                /\ last'.res.moved = Cardinality({p \in posts : p.category_id = c.id})
                /\ {q.id : q \in posts'} = {p.id : p \in posts}
                /\ \A p \in posts : \E q \in posts' :
                     /\ q.id = p.id
                     /\ IF p.category_id = c.id
                        THEN /\ \E d \in cats' : d.slug = "uncategorized"
                                                 /\ q.category_id = d.id
                             /\ q = [p EXCEPT !.category_id = q.category_id]
                        ELSE q = p
         ELSE posts' = posts /\ cats' = cats]_vars

\* a category holding posts was deleted and its posts are on the default one
C9_Witness ==
    /\ last.op = "delete_category"
    /\ last.res.success
    /\ last.res.moved > 0
    /\ \E d \in cats : d.slug = "uncategorized"
                       /\ \E p \in posts : p.category_id = d.id

\* C10: edit_category and delete_category aimed at the category whose slug is
\* 'uncategorized' change nothing in the store and report a failure
C10_DefaultProtected ==
    [][(/\ last'.op \in {"edit_category", "delete_category"}
        /\ \E c \in cats : c.id = last'.target /\ c.slug = "uncategorized")
       => /\ posts' = posts
          /\ cats' = cats
          /\ ~last'.res.success
          /\ last'.res.error_type = "protected"]_vars

\* an edit of the default category was refused while posts are attached to it
C10_Witness ==
    /\ last.op = "edit_category"
    /\ last.res.error_type = "protected"
    /\ \E c \in cats : /\ c.id = last.target
                       /\ c.slug = "uncategorized"
                       /\ \E p \in posts : p.category_id = c.id

-----------------------------------------------------------------------------
(* Claims on PostService and the storage hook (ServiceSpec) *)

\* C2: a successful create_post persists the new post as published for
\* action 'publish' and as draft for action 'save', and returns that status
C2_CreateStatus ==
    (last.op = "create_post" /\ last.res.success) =>
        \E p \in posts :
            /\ p.id = last.res.post_id
            /\ p.status = last.res.status
            /\ last.call.action = "publish" => p.status = "published"
            /\ last.call.action = "save" => p.status = "draft"

\* create_post with action 'publish' has succeeded
C2_Witness ==
    /\ last.op = "create_post"
    /\ last.res.success
    /\ last.call.action = "publish"
    /\ \E p \in posts : p.id = last.res.post_id /\ p.status = "published"

\* C3: update_post with action 'update' leaves the status of the post (and of
\* every post) as it was, whatever the other fields become
C3_UpdateKeepsStatus ==
    [][(last'.op = "update_post" /\ last'.call.action = "update") =>
         /\ {q.id : q \in posts'} = {p.id : p \in posts}
         /\ \A p \in posts : \A q \in posts' :
              q.id = p.id => q.status = p.status]_vars

\* a published post took new text, slug and category under action 'update'
C3_Witness ==
    /\ last.op = "update_post"
    /\ last.call.action = "update"
    /\ last.res.success
    /\ \E p \in posts : /\ p.id = last.target
                        /\ p.status = "published"
                        /\ p.title = "World"
                        /\ p.slug = "second-post"

\* C4: every persisted post has status draft or published, and a write of a
\* post with any other status is refused by the hook with a ValueError
C4_StatusValid ==
    /\ \A p \in posts : p.status \in {"draft", "published"}
    /\ (last.op = "seed_post" /\ last.call.action \notin {"draft", "published"})
       => (~last.res.success /\ last.res.raised = "ValueError")

\* a write of an existing post with status 'archived' was refused
C4_Witness ==
    /\ last.op = "seed_post"
    /\ last.call.action = "archived"
    /\ last.res.raised = "ValueError"
    /\ \E p \in posts : p.id = last.target

\* C6 (as stated): create_post with a slug a persisted post has returns
\* error_type 'integrity' and leaves the committed store as it was
C6_DuplicateSlug ==
    [][(last'.op = "create_post" /\ last'.call.dup_slug) =>
         /\ ~last'.res.success
         /\ last'.res.error_type = "integrity"
         /\ posts' = posts
         /\ cats' = cats]_vars

\* C7 (as stated): create_post and update_post called with no category and a
\* free slug succeed and leave the post on the category whose slug is
\* 'uncategorized'
C7_DefaultCategory ==
    (/\ last.op \in {"create_post", "update_post"}
     /\ last.call.no_category
     /\ ~last.call.dup_slug)
    => /\ last.res.success
       /\ \E p \in posts : \E d \in cats :
            /\ p.id = last.res.post_id
            /\ d.slug = "uncategorized"
            /\ p.category_id = d.id

-----------------------------------------------------------------------------
(* Claims on concurrent requests (ConcSpec) *)

\* C5: no two persisted posts have the same slug, however the requests
\* interleave
C5_SlugUnique == \A p, q \in posts : p.slug = q.slug => p.id = q.id

\* two requests passed validate_slug with the same slug; one committed, the
\* other was refused by the unique index
C5_Witness ==
    \E r, o \in Reqs :
        /\ r # o
        /\ req[r].pc = "done" /\ req[r].res.success
        /\ req[o].pc = "done" /\ req[o].res.error_type = "integrity"
        /\ TheForm(r).slug = TheForm(o).slug
        /\ \E p \in posts : p.slug = TheForm(o).slug

\* C8 (as stated): two requests that both found no default category finish
\* with no error reaching their caller, and exactly one category has the
\* slug 'uncategorized' afterwards
C8_ConcurrentDefault ==
    \A r, o \in Reqs :
        (/\ r # o
         /\ req[r].pc = "done" /\ req[r].saw_none
         /\ req[o].pc = "done" /\ req[o].saw_none)
        => /\ req[r].res.raised = "none"
           /\ req[o].res.raised = "none"
           /\ Cardinality(DefaultCats(cats)) = 1

-----------------------------------------------------------------------------
(* The sanitizer applied to inputs: once, and again to what it returned *)

\* longest input, in tokens
MaxTokens == 2

AttrPool ==
    {Attr("class", "x"), Attr("alt", "x"), Attr("onclick", "x"), Attr("open", "")}
    \cup {Attr("href", v) : v \in {"https://example.com/", "javascript:alert(1)",
                                   "/about"}}
    \cup {Attr("src", v) : v \in {"/static/images/a.png", "https://jake.tw/a.png",
                                  "data:image/png;base64,AA",
                                  "https://evil.example/a.png"}}

AttrLists == {<<>>} \cup {<<a>> : a \in AttrPool}

TagPool == {"p", "a", "img", "details", "script"}

Tokens ==
    {Text(d) : d \in {"hi", "a<b", "a&lt;b"}}
    \cup {Start(t, as) : t \in TagPool, as \in AttrLists}
    \cup {End(t) : t \in TagPool \ VoidTags}

HtmlInputs == UNION {[1..n -> Tokens] : n \in 0..MaxTokens}

\* strings, and values of other types a caller can pass
SanInputs ==
    {[type |-> "str", html |-> h] : h \in HtmlInputs}
    \cup {[type |-> t, html |-> <<>>] : t \in {"NoneType", "int", "bytes"}}

SanInit ==
    /\ posts = {}
    /\ cats = {}
    /\ last = NoRequest
    /\ req = <<>>
    /\ cache = NoCache
    /\ env = NoEnv
    /\ san \in {[input |-> i, calls |-> <<>>] : i \in SanInputs}
    /\ page = NoPage

\* clean_html_content(input)
CleanFirst ==
    /\ san.calls = <<>>
    /\ \E fails \in BOOLEAN :
         san' = [san EXCEPT !.calls = <<clean_html_content_call(san.input, fails)>>]
    /\ UNCHANGED <<posts, cats, last, req, cache, env, page>>

\* clean_html_content(what the first call returned)
CleanAgain ==
    /\ Len(san.calls) = 1
    /\ san.calls[1].raised = "none"
    /\ \E fails \in BOOLEAN :
         san' = [san EXCEPT !.calls =
                   Append(@, clean_html_content_call(
                                [type |-> "str", html |-> san.calls[1].value],
                                fails))]
    /\ UNCHANGED <<posts, cats, last, req, cache, env, page>>

SanNext == CleanFirst \/ CleanAgain

SanitizerSpec == SanInit /\ [][SanNext]_vars

-----------------------------------------------------------------------------
(* Claims on the sanitizer (SanitizerSpec) *)

Cleaned == Len(san.calls) >= 1 /\ ~san.calls[1].failed

TextOf(toks) == SelectSeq(toks, LAMBDA t : t.kind = "text")

ImagesOf(toks) == SelectSeq(toks, LAMBDA t : t.kind = "start" /\ t.tag = "img")

SrcOf(tok) == SelectSeq(tok.attrs, LAMBDA a : a.name = "src")

C17_AttributePolicy ==
    Cleaned =>
      \A i \in 1..Len(san.calls[1].value) :
        LET t == san.calls[1].value[i]
        IN  \A k \in 1..Len(t.attrs) :
              LET a == t.attrs[k]
              IN  \/ a.name \in {"class", "id"}
                  \/ t.tag = "a" /\ a.name = "href" /\ HttpUrl(a.value)
                  \/ t.tag = "img" /\ a.name = "src" /\ TrustedSrc(a.value)
                  \/ t.tag = "details" /\ a.name = "open"

\* C18 (as stated): every img of the input is in the output, with its src
\* exactly when the value starts with '/static/images/', 'https://jake.tw'
\* or 'data:image/'
C18_ImageSrc ==
    Cleaned =>
      LET ins == ImagesOf(san.input.html)
          outs == ImagesOf(san.calls[1].value)
      IN  /\ Len(outs) = Len(ins)
          /\ \A i \in 1..Len(ins) :
               SrcOf(outs[i]) = SelectSeq(SrcOf(ins[i]),
                                          LAMBDA a : TrustedSrc(a.value))

\* C19: the output of an input with a tag that is not allowed has no such
\* tag, and has the text of the input, all of it and in its order
C19_StripDisallowed ==
    (/\ Cleaned
     /\ \E i \in 1..Len(san.input.html) :
          /\ san.input.html[i].kind # "text"
          /\ san.input.html[i].tag \notin ALLOWED_HTML_TAGS)
    => /\ \A i \in 1..Len(san.calls[1].value) :
            san.calls[1].value[i].tag \in ALLOWED_HTML_TAGS \cup {"#text"}
       /\ TextOf(san.calls[1].value)
            = [i \in 1..Len(TextOf(san.input.html)) |->
                 Text(Escape(TextOf(san.input.html)[i].data))]

\* a script element with text inside was cleaned: the text is what is left
C19_Witness ==
    /\ san.input.html = <<Start("script", <<>>), Text("hi")>>
    /\ Cleaned
    /\ san.calls[1].value = <<Text("hi")>>

\* C20 (as stated): a call in which the cleaner fails raises nothing to its
\* caller and returns the empty string
C20_FailsClosed ==
    \A i \in 1..Len(san.calls) :
        san.calls[i].failed =>
            /\ san.calls[i].raised = "none"
            /\ san.calls[i].value = <<>>

-----------------------------------------------------------------------------
(* Claims on stored content (ServiceSpec) *)

-----------------------------------------------------------------------------
(* The post routes with the user of each request (AuthSpec) *)

AuthKeys == {{"save"}, {"update"}}

\* the store after the request and the record of it, with current_user and
\* the failure injected
ServedAs(op, target, call, out, user_id, fault) ==
    /\ posts' = out.posts
    /\ cats' = out.cats
    /\ last' = [op |-> op, target |-> target, call |-> call, res |-> out.res]
    /\ env' = [user |-> user_id, fault |-> fault]
    /\ UNCHANGED <<req, cache, san, page>>

AuthNewPost ==
    \E form \in PostForms(RouteTexts, RouteSlugs, {0}), user \in Users :
        /\ NextId(posts) <= MaxPostId
        /\ RoomForDefault(cats, form.category_id)
        /\ ServedAs("new_post", None, NoCall,
                    new_post(posts, cats, form, {"publish"}, user, "none"),
                    user.id, "none")

AuthEditPost ==
    \E post \in posts, form \in PostForms(RouteTexts, RouteSlugs, {0}),
       keys \in AuthKeys, user \in Users :
        /\ RoomForDefault(cats, form.category_id)
        /\ ServedAs("edit_post", post.id, NoCall,
                    edit_post(posts, cats, post, form, keys, user, "none"),
                    user.id, "none")

AuthDeletePost ==
    \E post \in posts, user \in Users, fault \in Faults :
        ServedAs("delete_post", post.id, NoCall,
                 delete_post_route(posts, cats, post, user, fault),
                 user.id, fault)

AuthNext == AuthNewPost \/ AuthEditPost \/ AuthDeletePost

AuthSpec == Init /\ [][AuthNext]_vars

-----------------------------------------------------------------------------
(* PostService under failures of the commit and of the cache (FaultSpec) *)

\* a commit that fails, an invalidation that raises after the commit
WriteFaults == Faults \cup CacheFaults

\* form data a caller of PostService can pass: the title may be missing
FaultTexts ==
    RouteTexts \cup {[t EXCEPT !.title = NoneStr] : t \in RouteTexts}

FaultCreatePost ==
    \E form \in PostForms(FaultTexts, RouteSlugs, {0}),
       action \in {"publish", "save"}, user \in ServiceUsers,
       fault \in WriteFaults :
        /\ NextId(posts) <= MaxPostId
        /\ RoomForDefault(cats, form.category_id)
        /\ ServedAs("create_post", None, Call(posts, form, action, None),
                    create_post(posts, cats, form, action, user, fault),
                    user.id, fault)

FaultUpdatePost ==
    \E post \in posts, form \in PostForms(FaultTexts, RouteSlugs, {0}),
       action \in {"publish", "save", "update"}, user \in ServiceUsers,
       fault \in WriteFaults :
        /\ RoomForDefault(cats, form.category_id)
        /\ ServedAs("update_post", post.id, Call(posts, form, action, post.id),
                    update_post(posts, cats, post, form, action, fault),
                    user.id, fault)

FaultDeletePost ==
    \E post \in posts, user \in ServiceUsers, fault \in WriteFaults :
        ServedAs("delete_post", post.id, NoCall,
                 delete_post(posts, cats, post, fault), user.id, fault)

FaultNext == FaultCreatePost \/ FaultUpdatePost \/ FaultDeletePost

FaultSpec == Init /\ [][FaultNext]_vars

-----------------------------------------------------------------------------
(* The routes with the memoized dashboard statistics (CacheSpec) *)

\* what get_dashboard_stats computes from the store
Stats(ps, cs) ==
    [posts_count |-> Cardinality({p \in ps : p.status = "published"}),
     drafts_count |-> Cardinality({p \in ps : p.status = "draft"}),
     categories_count |-> Cardinality(cs)]

\* mutant: the invalidation deletes nothing
clear_stats_cache_noop(c) == c

\* cache.delete_memoized(get_dashboard_stats)
clear_stats_cache(c) ==
    [c EXCEPT !.memo = NoStats,
              !.dropped = IF c.memo # NoStats THEN c.memo ELSE c.dropped]

\* clear_category_cache ends in clear_stats_cache; only the statistics are
\* followed here
clear_category_cache(c) == clear_stats_cache(c)

\* the memoized get_dashboard_stats: the memo if there is one, else the counts
\* of the store, which become the memo
get_dashboard_stats(c, ps, cs) ==
    LET v == IF c.memo # NoStats THEN c.memo ELSE Stats(ps, cs)
    IN  [c EXCEPT !.memo = v, !.returned = v]

\* the handlers that call clear_category_cache: after their commit, and
\* get_or_create_default_category after its flush
Invalidates(out) == out.res.success \/ out.res.flushed_default

\* new_post, edit_post and new_category fall through to the page, which
\* reads the statistics, when the form or the write failed
Renders(op, out) ==
    /\ op \in {"new_post", "edit_post", "new_category"}
    /\ ~out.res.success
    /\ out.res.error_type \notin {"forbidden", "raised"}

\* the cache after a request that ended in out
CacheAfter(op, out) ==
    LET c0 == [cache EXCEPT !.returned = NoStats, !.dropped = NoStats]
        c1 == IF Invalidates(out)
              THEN clear_stats_cache(clear_category_cache(c0)) ELSE c0
    IN  IF Renders(op, out) THEN get_dashboard_stats(c1, out.posts, out.cats)
        ELSE c1

ServedCached(op, target, out) ==
    /\ posts' = out.posts
    /\ cats' = out.cats
    /\ last' = [op |-> op, target |-> target, call |-> NoCall, res |-> out.res]
    /\ cache' = CacheAfter(op, out)
    /\ UNCHANGED <<req, env, san, page>>

CacheKeys == {{"publish"}, {"save"}}

CacheNewPost ==
    \E form \in PostForms(RouteTexts, RouteSlugs, {0} \cup CatIds(cats)),
       keys \in CacheKeys, user \in ServiceUsers :
        /\ NextId(posts) <= MaxPostId
        /\ RoomForDefault(cats, form.category_id)
        /\ ServedCached("new_post", None,
                        new_post(posts, cats, form, keys, user, "none"))

CacheEditPost ==
    \E post \in posts,
       form \in PostForms(RouteTexts, RouteSlugs, {0} \cup CatIds(cats)),
       keys \in CacheKeys, user \in ServiceUsers :
        /\ RoomForDefault(cats, form.category_id)
        /\ ServedCached("edit_post", post.id,
                        edit_post(posts, cats, post, form, keys, user, "none"))

CacheDeletePost ==
    \E post \in posts, user \in ServiceUsers, fault \in Faults :
        ServedCached("delete_post", post.id,
                     delete_post_route(posts, cats, post, user, fault))

CacheNewCategory ==
    \E form \in CatForms, fault \in Faults :
        /\ NextId(cats) <= MaxCatId
        /\ ServedCached("new_category", None,
                        new_category(posts, cats, form, fault))

CacheEditCategory ==
    \E category \in cats, form \in CatForms, fault \in Faults :
        ServedCached("edit_category", category.id,
                     edit_category(posts, cats, category, form, fault))

CacheDeleteCategory ==
    \E category \in cats, fault \in Faults :
        ServedCached("delete_category", category.id,
                     delete_category(posts, cats, category, fault))

\* GET /dashboard/: index() reads the statistics
DashboardIndex ==
    /\ posts' = posts
    /\ cats' = cats
    /\ last' = [NoRequest EXCEPT !.op = "index"]
    /\ cache' = get_dashboard_stats([cache EXCEPT !.returned = NoStats],
                                    posts, cats)
    /\ UNCHANGED <<req, env, san, page>>

\* the memo reaches its timeout of 300 s
ExpireStats ==
    /\ cache.memo # NoStats
    /\ cache' = [cache EXCEPT !.memo = NoStats]
    /\ UNCHANGED <<posts, cats, last, req, env, san, page>>

CacheNext ==
    \/ CacheNewPost
    \/ CacheEditPost
    \/ CacheDeletePost
    \/ CacheNewCategory
    \/ CacheEditCategory
    \/ CacheDeleteCategory
    \/ DashboardIndex
    \/ ExpireStats

CacheSpec == Init /\ [][CacheNext]_vars

-----------------------------------------------------------------------------
(* Claims on the statistics cache (CacheSpec) *)

\* C11: what a call of get_dashboard_stats returns is the counts of the
\* store as it is, and a memo left in the cache is never one of other counts
C11_StatsFresh ==
    /\ cache.returned # NoStats => cache.returned = Stats(posts, cats)
    /\ cache.memo # NoStats => cache.memo = Stats(posts, cats)

\* the last write deleted a memo of other counts, which had not expired, and
\* the dashboard then read the counts of the store
C11_Witness ==
    /\ last.op = "index"
    /\ cache.dropped # NoStats
    /\ cache.dropped # Stats(posts, cats)
    /\ cache.returned = Stats(posts, cats)

-----------------------------------------------------------------------------
(* Claims on failures (FaultSpec) *)

\* C12 (as stated): a write of PostService whose commit succeeded and whose
\* cache invalidation raised returns success
C12_CacheFailureIsolated ==
    (/\ last.op \in {"create_post", "update_post", "delete_post"}
     /\ env.fault \in CacheFaults
     /\ last.res.cause = "CacheError")
    => last.res.success

\* C14 (as stated): create_post and update_post whose commit fails for
\* another reason than the unique slug leave the store as it was and return
\* a failure that is not the DuplicateSlug condition
C14_OtherFailureGeneric ==
    [][(/\ last'.op \in {"create_post", "update_post"}
        /\ last'.res.cause \in {"OperationalError", "IntegrityError:posts.title"})
       => /\ ~last'.res.success
          /\ last'.res.error_type # "integrity"
          /\ posts' = posts
          /\ cats' = cats]_vars

-----------------------------------------------------------------------------
(* Claims on permissions (AuthSpec) *)

\* C13: an edit_post or delete_post request of a user who is neither the
\* author of the post nor an admin ends with Forbidden and changes nothing;
\* a request of the author or of an admin is never Forbidden
C13_Forbidden ==
    [][last'.op \in {"edit_post", "delete_post"} =>
         \E p \in posts :
           /\ p.id = last'.target
           /\ LET allowed ==
                    \/ p.author_id = env'.user
                    \/ \E u \in Users : u.id = env'.user /\ u.is_admin
              IN  IF allowed
                  THEN last'.res.error_type # "forbidden"
                  ELSE /\ last'.res.error_type = "forbidden"
                       /\ ~last'.res.success
                       /\ posts' = posts
                       /\ cats' = cats]_vars

\* a user who is no admin asked to edit the post of another user and got
\* Forbidden
C13_Witness ==
    /\ last.op = "edit_post"
    /\ last.res.error_type = "forbidden"
    /\ env.user = 2
    /\ \E p \in posts : p.id = last.target /\ p.author_id = 1

-----------------------------------------------------------------------------
(* The public pages (PublicSpec) *)

\* what a visitor can put in /<slug>/ and in /category/<slug>/
PostUrls == RawSlugs \cup {"untitled-1", "untitled-2", "untitled-x"}
CategoryUrls == {"uncategorized", "tech"}

\* slug.strip().lower()
_normalize_slug(slug) == Lower(slug)

\* slug.startswith('untitled-')
IsUntitled(slug) == slug \in {"untitled-1", "untitled-2", "untitled-x"}

\* int(slug.replace('untitled-', '')): None where it raises ValueError
UntitledId(slug) ==
    CASE slug = "untitled-1" -> 1
      [] slug = "untitled-2" -> 2
      [] OTHER -> None

\* the rows the query of post() finds for the url
Addressed(ps, url) ==
    LET slug == _normalize_slug(url)
    IN  IF IsUntitled(slug)
        THEN {p \in ps : p.id = UntitledId(slug)}
        ELSE {p \in ps : p.slug = slug}

\* mutant: the page shows whatever the query found
CanView_all(p, authenticated) == TRUE

\* post(): a draft is shown to logged-in users only
CanView(p, authenticated) == ~(p.status = "draft" /\ ~authenticated)

\* filter_by(status='published')
Published(ps) == {p \in ps : p.status = "published"}

Response(route, url, authenticated, code, served) ==
    [route |-> route, url |-> url, authenticated |-> authenticated,
     code |-> code, served |-> served]

\* GET /<slug>/
post(ps, url, authenticated) ==
    LET found == Addressed(ps, url)
    IN  IF found = {} \/ \E p \in found : ~CanView(p, authenticated)
        THEN Response("post", url, authenticated, 404, {})
        ELSE Response("post", url, authenticated, 200, found)

\* GET /
index(ps, authenticated) ==
    Response("index", NoneStr, authenticated, 200, Published(ps))

\* GET /category/<slug>/
category(ps, cs, url, authenticated) ==
    LET slug == _normalize_slug(url)
        found == {c \in cs : c.slug = slug}
    IN  IF found = {}
        THEN Response("category", url, authenticated, 404, {})
        ELSE Response("category", url, authenticated, 200,
                      {p \in Published(ps) :
                          \E c \in found : p.category_id = c.id})

\* GET /sitemap.xml
sitemap(ps, authenticated) ==
    Response("sitemap", NoneStr, authenticated, 200, Published(ps))

\* a public page is answered: nothing is written
Answered(response) ==
    /\ page' = response
    /\ last' = [NoRequest EXCEPT !.op = response.route]
    /\ UNCHANGED <<posts, cats, req, cache, env, san>>

PublicPost ==
    \E url \in PostUrls, authenticated \in BOOLEAN :
        Answered(post(posts, url, authenticated))

PublicIndex ==
    \E authenticated \in BOOLEAN : Answered(index(posts, authenticated))

PublicCategory ==
    \E url \in CategoryUrls, authenticated \in BOOLEAN :
        Answered(category(posts, cats, url, authenticated))

PublicSitemap ==
    \E authenticated \in BOOLEAN : Answered(sitemap(posts, authenticated))

PublicNext ==
    \/ AuthNewPost
    \/ AuthEditPost
    \/ PublicPost
    \/ PublicIndex
    \/ PublicCategory
    \/ PublicSitemap

PublicSpec == Init /\ [][PublicNext]_vars

-----------------------------------------------------------------------------
(* Claims on the public pages (PublicSpec) *)

\* C21: a visitor who is not logged in is never shown a draft: the post page
\* answers 404 for a draft, by slug or by untitled-<id>, and the index, the
\* category page and the sitemap show published posts only; the post page
\* shows a published post to everyone
C21_DraftsHidden ==
    [][(last'.op \in {"post", "index", "category", "sitemap"})
       => /\ ~page'.authenticated =>
                \A p \in page'.served : p.status # "draft"
          /\ page'.route # "post" =>
                \A p \in page'.served : p.status = "published"
          /\ page'.route = "post" =>
                \A p \in Addressed(posts, page'.url) :
                   /\ (p.status = "draft" /\ ~page'.authenticated)
                         => page'.code = 404 /\ page'.served = {}
                   /\ p.status = "published"
                         => page'.code = 200 /\ page'.served = {p}]_vars

\* a visitor who is not logged in asked for a draft by its untitled-<id>
\* address and got 404
C21_Witness ==
    /\ last.op = "post"
    /\ page.url = "untitled-1"
    /\ ~page.authenticated
    /\ page.code = 404
    /\ \E p \in posts : p.id = 1 /\ p.status = "draft"

-----------------------------------------------------------------------------
(* A post request interleaved with delete_category (RaceSpec): request A    *)
(* creates or edits a post, request B deletes a category                    *)

\* delete_category up to db.session.delete: the category is loaded, its
\* posts are counted, the default category is looked up and the posts of the
\* category are loaded and given its id
DeleteLoad(r) ==
    /\ req[r].pc = "idle"
    /\ \E c \in cats :
         LET mine == {p \in posts : p.category_id = c.id}
             refused ==
                 IF is_default_category(c) THEN "protected"
                 ELSE IF mine # {} /\ DefaultCats(cats) = {} THEN "no_default"
                 ELSE "none"
         IN  req' = [req EXCEPT ![r] =
               IF refused # "none"
               THEN [IdleReq EXCEPT !.pc = "done", !.kind = "delete_category",
                       !.res = Result(FALSE, refused, NoneStr, None, "none",
                                      FALSE)]
               ELSE [IdleReq EXCEPT !.pc = "delete", !.kind = "delete_category",
                       !.loaded = {c}, !.moving = mine,
                       !.category_id =
                           IF mine = {} THEN None
                           ELSE (CHOOSE d \in DefaultCats(cats) : TRUE).id]]
    /\ UNCHANGED <<posts, cats, last, cache, env, san, page>>

\* db.session.delete(category) and the commit: the posts loaded are updated,
\* the posts found on the category at the flush lose their category_id, the
\* category row is deleted; a row that is gone fails the flush
DeleteCommit(r) ==
    /\ req[r].pc = "delete"
    /\ LET c == CHOOSE d \in req[r].loaded : TRUE
           gone == c \notin cats
                   \/ \E m \in req[r].moving : ~\E p \in posts : p.id = m.id
           moved == {IF \E m \in req[r].moving : m.id = p.id
                     THEN LET m == CHOOSE n \in req[r].moving : n.id = p.id
                          IN  Written(p, m, clean_post_content(
                                 [m EXCEPT !.category_id = req[r].category_id]))
                     ELSE p : p \in posts}
       IN  IF gone
           THEN /\ UNCHANGED <<posts, cats>>
                /\ req' = [req EXCEPT ![r] =
                     [IdleReq EXCEPT !.pc = "done", !.kind = "delete_category",
                        !.res = Failed("unexpected", "StaleDataError", FALSE)]]
           ELSE /\ posts' = Nullify(moved, c.id)
                /\ cats' = cats \ {c}
                /\ req' = [req EXCEPT ![r] =
                     [IdleReq EXCEPT !.pc = "done", !.kind = "delete_category",
                        !.res = Result(TRUE, "none", NoneStr, c.id, "none",
                                       FALSE)]]
    /\ UNCHANGED <<last, cache, env, san, page>>

\* new_category, served while the two requests are under way; its INSERT
\* waits while an open transaction holds a category row it has not committed
RaceNewCategory ==
    \E form \in CatForms :
        /\ \A r \in Reqs : req[r].sess_cats = {}
        /\ NextId(cats) <= MaxCatId
        /\ posts' = posts
        /\ cats' = new_category(posts, cats, form, "none").cats
        /\ UNCHANGED <<last, req, cache, env, san, page>>

RaceNext ==
    \/ Submit("A")
    \/ Resolve("A")
    \/ FlushDefault("A")
    \/ Commit("A")
    \/ Finish("A")
    \/ DeleteLoad("B")
    \/ DeleteCommit("B")
    \/ Finish("B")
    \/ RaceNewCategory

RaceSpec == ConcInit /\ [][RaceNext]_vars

-----------------------------------------------------------------------------
(* Claims on the category of a post (RaceSpec) *)

\* C22 (as stated): in every reachable state the category_id of every post
\* is the id of a category that exists
C22_CategoryResolvable == \A p \in posts : p.category_id \in CatIds(cats)

-----------------------------------------------------------------------------
(* Claims on a failing invalidation and on delete_post (FaultSpec) *)

C25_DeleteFailureAtomic ==
    [][(last'.op = "delete_post" /\ env'.fault = "commit")
       => /\ ~last'.res.success
          /\ last'.res.error_type = "unexpected"
          /\ last'.res.cause = "OperationalError"
          /\ posts' = posts
          /\ cats' = cats
          /\ \E p \in posts' : p.id = last'.target]_vars

\* the commit of delete_post failed and the post is still stored
C25_Witness ==
    /\ last.op = "delete_post"
    /\ env.fault = "commit"
    /\ ~last.res.success
    /\ \E p \in posts : p.id = last.target

-----------------------------------------------------------------------------
(* Claims on deletes (Spec) *)

\* C24: a successful delete_post removes the row of the given post and
\* nothing else: every other post and every category is as it was, and no
\* row with the id of the deleted post is left (the users table is written
\* by no request)
C24_DeleteExactlyOne ==
    [][(last'.op = "delete_post" /\ last'.res.success)
       => \E p \in posts :
            /\ p.id = last'.target
            /\ posts' = posts \ {p}
            /\ cats' = cats
            /\ ~\E q \in posts' : q.id = p.id]_vars

\* a post was deleted and another post is still stored
C24_Witness ==
    /\ last.op = "delete_post"
    /\ last.res.success
    /\ posts # {}
    /\ ~\E p \in posts : p.id = last.target

\* C28: delete_category of a category that is not the default and holds a
\* post, when no category has the slug 'uncategorized', reports an error and
\* changes nothing
C28_NoDefaultNoDelete ==
    [][(/\ last'.op = "delete_category"
        /\ DefaultCats(cats) = {}
        /\ \E p \in posts : p.category_id = last'.target)
       => /\ ~last'.res.success
          /\ last'.res.error_type = "no_default"
          /\ posts' = posts
          /\ cats' = cats]_vars

\* the delete of a category holding a post was refused for want of the
\* default category
C28_Witness ==
    /\ last.op = "delete_category"
    /\ last.res.error_type = "no_default"
    /\ DefaultCats(cats) = {}
    /\ \E c \in cats : c.id = last.target
    /\ \E p \in posts : p.category_id = last.target

\* C30: a step from a store holding a category with the slug 'uncategorized'
\* leads to a store holding one, and no store holds two
C30_DefaultStays ==
    [][/\ DefaultCats(cats) # {} => DefaultCats(cats') # {}
       /\ Cardinality(DefaultCats(cats')) <= 1]_vars

\* the default category is stored after a delete aimed at it
C30_Witness ==
    /\ last.op = "delete_category"
    /\ \E c \in DefaultCats(cats) : c.id = last.target

-----------------------------------------------------------------------------
(* _determine_post_action applied to submitted forms (ActionSpec) *)

\* the keys request.form can carry: the submit buttons and the other fields
FieldNames ==
    {"publish", "save", "update", "preview", "title", "slug", "csrf_token"}

ActionInit ==
    /\ posts = {}
    /\ cats = {}
    /\ last = NoRequest
    /\ req \in {[form_data |-> keys, action |-> NoneStr] :
                   keys \in SUBSET FieldNames}
    /\ cache = NoCache
    /\ env = NoEnv
    /\ san = NoSan
    /\ page = NoPage

\* action = _determine_post_action(request.form)
Determine ==
    /\ req.action = NoneStr
    /\ req' = [req EXCEPT !.action = _determine_post_action(req.form_data)]
    /\ UNCHANGED <<posts, cats, last, cache, env, san, page>>

ActionNext == Determine

ActionSpec == ActionInit /\ [][ActionNext]_vars

-----------------------------------------------------------------------------
(* Claims on the action of a form (ActionSpec) *)

\* C26: the action is 'publish' for a form with the publish key, else 'save'
\* for one with save, else 'update' for one with update, and 'save' for a
\* form with none of the three
C26_ActionOrder ==
    req.action # NoneStr =>
        LET keys == req.form_data
        IN  /\ "publish" \in keys => req.action = "publish"
            /\ ("publish" \notin keys /\ "save" \in keys) => req.action = "save"
            /\ (keys \cap {"publish", "save"} = {} /\ "update" \in keys)
                  => req.action = "update"
            /\ keys \cap {"publish", "save", "update"} = {}
                  => req.action = "save"

\* a submit carrying preview and none of the three buttons was given 'save'
C26_Witness ==
    /\ "preview" \in req.form_data
    /\ req.form_data \cap {"publish", "save", "update"} = {}
    /\ req.action = "save"

-----------------------------------------------------------------------------
(* Claims on the author of a post (AuthSpec) *)

\* C29: a new post carries the id of the user who created it as author_id,
\* and an edit_post request, of the author or of an admin, leaves the id and
\* the author_id of every post as they were
C29_AuthorKept ==
    [][/\ (last'.op = "new_post" /\ last'.res.success)
          => \A q \in posts' \ posts : q.author_id = env'.user
       /\ last'.op = "edit_post"
          => /\ {q.id : q \in posts'} = {p.id : p \in posts}
             /\ \A p \in posts : \A q \in posts' :
                  q.id = p.id => q.author_id = p.author_id]_vars

\* an admin has edited the post of another user, who is still its author
C29_Witness ==
    /\ last.op = "edit_post"
    /\ last.res.success
    /\ env.user = 1
    /\ \E p \in posts : p.id = last.target /\ p.author_id = 2

-----------------------------------------------------------------------------
(* get_dashboard_stats interleaved with a write (StatsRaceSpec): the reader *)
(* R runs the memoized call, the writer W commits and then invalidates      *)

\* Flask-Caching builds the key of a memoized call from the version stored
\* for the function, and delete_memoized(f) stores a new version: the reader
\* keeps the key it built, and whether that key is still the one looked up

\* mutant: the key built before the invalidation is the key looked up after
KeyAfterReset_same(key_current) == key_current

\* cache.delete_memoized(get_dashboard_stats) for a call under way: its key
\* carries the version that was replaced
KeyAfterReset(key_current) == FALSE

IdleReader == [pc |-> "idle", key_current |-> FALSE, rv |-> NoStats]
IdleWriter == [pc |-> "idle", key_current |-> FALSE, rv |-> NoStats]

StatsRaceInit ==
    /\ posts = {}
    /\ cats = {}
    /\ last = NoRequest
    /\ req = [R |-> IdleReader, W |-> IdleWriter]
    /\ cache = NoCache
    /\ env = NoEnv
    /\ san = NoSan
    /\ page = NoPage

\* memoize: the key is built and looked up; a hit returns the memo
StatsLookup ==
    /\ req.R.pc = "idle"
    /\ IF cache.memo # NoStats
       THEN /\ cache' = [cache EXCEPT !.returned = cache.memo]
            /\ last' = [NoRequest EXCEPT !.op = "stats_hit"]
            /\ UNCHANGED req
       ELSE /\ req' = [req EXCEPT !.R = [IdleReader EXCEPT !.pc = "call",
                                                         !.key_current = TRUE]]
            /\ UNCHANGED <<cache, last>>
    /\ UNCHANGED <<posts, cats, env, san, page>>

\* memoize on a miss: the function runs its three count queries
StatsCall ==
    /\ req.R.pc = "call"
    /\ req' = [req EXCEPT !.R.pc = "set", !.R.rv = Stats(posts, cats)]
    /\ UNCHANGED <<posts, cats, last, cache, env, san, page>>

\* memoize on a miss: cache.set(cache_key, rv) with the key built at the
\* lookup, and the value is returned
StatsSet ==
    /\ req.R.pc = "set"
    /\ cache' = [cache EXCEPT !.returned = req.R.rv,
                              !.memo = IF req.R.key_current THEN req.R.rv
                                       ELSE @]
    /\ last' = [NoRequest EXCEPT !.op = IF req.R.key_current THEN "stats_set"
                                        ELSE "stats_set_old_key"]
    /\ req' = [req EXCEPT !.R = IdleReader]
    /\ UNCHANGED <<posts, cats, env, san, page>>

\* the commit of a post or category write, and its outcome
Committed(out) ==
    /\ posts' = out.posts
    /\ cats' = out.cats
    /\ req' = [req EXCEPT !.W.pc = IF out.res.success THEN "invalidate"
                                   ELSE "idle"]
    /\ UNCHANGED <<last, cache, env, san, page>>

WritePost ==
    /\ req.W.pc = "idle"
    /\ NextId(posts) <= MaxPostId
    /\ \E form \in PostForms(RouteTexts, RouteSlugs, CatIds(cats)),
          keys \in CacheKeys, user \in ServiceUsers :
         Committed(new_post(posts, cats, form, keys, user, "none"))

WriteDeletePost ==
    /\ req.W.pc = "idle"
    /\ \E p \in posts, user \in ServiceUsers :
         Committed(delete_post_route(posts, cats, p, user, "none"))

WriteCategory ==
    /\ req.W.pc = "idle"
    /\ \/ \E form \in CatForms :
            /\ NextId(cats) <= MaxCatId
            /\ Committed(new_category(posts, cats, form, "none"))
       \/ \E c \in cats : Committed(delete_category(posts, cats, c, "none"))

\* clear_category_cache / clear_stats_cache after the commit
WriteInvalidate ==
    /\ req.W.pc = "invalidate"
    /\ cache' = clear_stats_cache(clear_category_cache(cache))
    /\ req' = [req EXCEPT !.W.pc = "idle",
                          !.R.key_current = KeyAfterReset(@)]
    /\ UNCHANGED <<posts, cats, last, env, san, page>>

StatsRaceNext ==
    \/ StatsLookup
    \/ StatsCall
    \/ StatsSet
    \/ WritePost
    \/ WriteDeletePost
    \/ WriteCategory
    \/ WriteInvalidate

StatsRaceSpec == StatsRaceInit /\ [][StatsRaceNext]_vars

-----------------------------------------------------------------------------
(* Claims on the statistics under concurrency (StatsRaceSpec) *)

\* C27: when the call of get_dashboard_stats and the write have both
\* finished, the cache holds no statistics or the counts of the store
C27_NoStaleMemo ==
    (req.R.pc = "idle" /\ req.W.pc = "idle")
    => cache.memo \in {NoStats, Stats(posts, cats)}

\* both have finished; the call read the counts before the commit and set
\* them after the invalidation, and the cache holds no statistics
C27_Witness ==
    /\ req.R.pc = "idle"
    /\ req.W.pc = "idle"
    /\ last.op = "stats_set_old_key"
    /\ cache.returned # Stats(posts, cats)
    /\ cache.memo = NoStats

====
